---- MODULE Spec2Model ----
(***************************************************************************)
(* Conway's Game of Life on a toroidal grid: the Universe of               *)
(* src/wasm/wasm-module/src/lib.rs (fields width, height, cells; methods   *)
(* get_index, live_neighbor_count, tick, width, height, cells).            *)
(***************************************************************************)
EXTENDS Integers, Sequences, FiniteSets, TLC

VARIABLES width, height, cells, pc, row, col, next, ret

vars == <<width, height, cells, pc, row, col, next, ret>>

\* ------------------------------------------------------------------ bounds
\* largest number of cells (width * height) of the universes explored
MaxCells == 9

\* largest width and height of the grids that start as a 2x2 block
MaxBlockDim == 4

\* largest width and height of the grids that start as a blinker
MaxBlinkerDim == 6

\* number of cells up to which the collect of new() is explored
MaxNewCells == 128

\* ------------------------------------------------------------- data model
\* enum Cell { Dead = 0, Alive = 1 }
Cell == {"Dead", "Alive"}

\* CellAsU8 with the discriminants declared the other way round
CellAsU8_Swapped(cell) == IF cell = "Alive" THEN 0 ELSE 1

\* `cell as u8`: the discriminant of the #[repr(u8)] enum
CellAsU8(cell) == IF cell = "Alive" THEN 1 ELSE 0

\* the u8 neighbour counter keeps its width; the u32 values of the model
\* stay far below 2^32 and are computed in the naturals
U8(x) == x % 256

\* Vec::len of a buffer, a function on 0 .. len-1
VecLen(buf) == Cardinality(DOMAIN buf)

\* the local `next` of tick() does not exist outside a call
NoBuf == [i \in {} |-> "Dead"]

\* no call has returned a value yet / a call is in progress
NoRet == [fn |-> "none", val |-> 0]

\* -------------------------------------------------------------- get_index
\* get_index with self.height as the stride
get_index_HeightStride(r, column) == r * height + column

get_index(r, column) == r * width + column

\* ---------------------------------------------------- live_neighbor_count
\* DeltaRows with self.height in place of self.height - 1
DeltaRows_NoMinusOne == <<height, 0, 1>>

\* the array [self.height - 1, 0, 1]
DeltaRows == <<height - 1, 0, 1>>

\* DeltaCols with self.width in place of self.width - 1
DeltaCols_NoMinusOne == <<width, 0, 1>>

\* the array [self.width - 1, 0, 1]
DeltaCols == <<width - 1, 0, 1>>

\* NeighborVisits without the `continue` that skips the cell itself
RECURSIVE NeighborVisits_NoSkip(_, _, _)
NeighborVisits_NoSkip(r, column, k) ==
  IF k > 9 THEN << >>
  ELSE LET delta_row == DeltaRows[((k - 1) \div 3) + 1]
           delta_col == DeltaCols[((k - 1) % 3) + 1]
           neighbor_row == (r + delta_row) % height
           neighbor_col == (column + delta_col) % width
       IN <<neighbor_row * width + neighbor_col>>
            \o NeighborVisits_NoSkip(r, column, k + 1)

\* NeighborVisits with row.saturating_sub(1) and column.saturating_sub(1) for
\* the delta -1 instead of the addition of height - 1 and width - 1
RECURSIVE NeighborVisits_Saturating(_, _, _)
NeighborVisits_Saturating(r, column, k) ==
  IF k > 9 THEN << >>
  ELSE LET kr == ((k - 1) \div 3) + 1
           kc == ((k - 1) % 3) + 1
           rest == NeighborVisits_Saturating(r, column, k + 1)
           neighbor_row == IF kr = 1 THEN (IF r = 0 THEN 0 ELSE r - 1)
                           ELSE (r + DeltaRows[kr]) % height
           neighbor_col == IF kc = 1 THEN (IF column = 0 THEN 0 ELSE column - 1)
                           ELSE (column + DeltaCols[kc]) % width
       IN IF kr = 2 /\ kc = 2
          THEN rest
          ELSE <<neighbor_row * width + neighbor_col>> \o rest

\* the indices read by iterations k .. 9 of the two nested delta loops,
\* in the order of the loops; a (0, 0) pair of deltas is skipped (continue)
RECURSIVE NeighborVisits(_, _, _)
NeighborVisits(r, column, k) ==
  IF k > 9 THEN << >>
  ELSE LET delta_row == DeltaRows[((k - 1) \div 3) + 1]
           delta_col == DeltaCols[((k - 1) % 3) + 1]
           rest == NeighborVisits(r, column, k + 1)
       IN IF delta_row = 0 /\ delta_col = 0
          THEN rest
          ELSE LET neighbor_row == (r + delta_row) % height
                   neighbor_col == (column + delta_col) % width
               IN <<get_index(neighbor_row, neighbor_col)>> \o rest

\* count += self.cells[idx] as u8, over a sequence of indices
RECURSIVE SumCells(_, _)
SumCells(buf, idxs) ==
  IF idxs = << >> THEN 0
  ELSE U8(CellAsU8(buf[Head(idxs)]) + SumCells(buf, Tail(idxs)))

live_neighbor_count(r, column) == SumCells(cells, NeighborVisits(r, column, 1))

\* ------------------------------------------------------------------- tick
\* next_cell with rule 1 written `x <= 2`
next_cell_Rule1Le2(cell, live_neighbors) ==
  IF cell = "Alive" /\ live_neighbors <= 2 THEN "Dead"
  ELSE IF cell = "Alive" /\ (live_neighbors = 2 \/ live_neighbors = 3) THEN "Alive"
  ELSE IF cell = "Alive" /\ live_neighbors > 3 THEN "Dead"
  ELSE IF cell = "Dead" /\ live_neighbors = 3 THEN "Alive"
  ELSE cell

\* next_cell with rule 1 written `x == 1`
next_cell_Rule1Eq1(cell, live_neighbors) ==
  IF cell = "Alive" /\ live_neighbors = 1 THEN "Dead"
  ELSE IF cell = "Alive" /\ (live_neighbors = 2 \/ live_neighbors = 3) THEN "Alive"
  ELSE IF cell = "Alive" /\ live_neighbors > 3 THEN "Dead"
  ELSE IF cell = "Dead" /\ live_neighbors = 3 THEN "Alive"
  ELSE cell

\* next_cell with rule 4 written `x < 3`
next_cell_Rule4Lt3(cell, live_neighbors) ==
  IF cell = "Alive" /\ live_neighbors < 2 THEN "Dead"
  ELSE IF cell = "Alive" /\ (live_neighbors = 2 \/ live_neighbors = 3) THEN "Alive"
  ELSE IF cell = "Alive" /\ live_neighbors > 3 THEN "Dead"
  ELSE IF cell = "Dead" /\ live_neighbors < 3 THEN "Alive"
  ELSE cell

\* the match (cell, live_neighbors) of tick(), arm by arm
next_cell(cell, live_neighbors) ==
  IF cell = "Alive" /\ live_neighbors < 2 THEN "Dead"
  ELSE IF cell = "Alive" /\ (live_neighbors = 2 \/ live_neighbors = 3) THEN "Alive"
  ELSE IF cell = "Alive" /\ live_neighbors > 3 THEN "Dead"
  ELSE IF cell = "Dead" /\ live_neighbors = 3 THEN "Alive"
  ELSE cell

\* tick() as a function of the buffer: the buffer it swaps in for buf
NextBuffer(buf) ==
  [i \in DOMAIN buf |->
     next_cell(buf[i],
               SumCells(buf, NeighborVisits(i \div width, i % width, 1)))]

\* let mut next = self.cells.clone(); and entry of the two for loops
TickBegin ==
  /\ pc = "idle"
  /\ next' = cells
  /\ row' = 0
  /\ col' = 0
  /\ pc' = IF 0 < height /\ 0 < width THEN "loop" ELSE "swap"
  /\ ret' = NoRet
  /\ UNCHANGED <<width, height, cells>>

\* the loop increments after one iteration of the inner loop body
LoopAdvance ==
  IF col + 1 < width
  THEN /\ col' = col + 1
       /\ UNCHANGED <<row, pc>>
  ELSE IF row + 1 < height
       THEN /\ row' = row + 1
            /\ col' = 0
            /\ UNCHANGED pc
       ELSE /\ row' = 0
            /\ col' = 0
            /\ pc' = "swap"

\* TickCell updating the grid's own buffer in place as well
TickCell_InPlace ==
  /\ pc = "loop"
  /\ LET idx == get_index(row, col)
         cell == cells[idx]
         live_neighbors == live_neighbor_count(row, col)
     IN /\ next' = [next EXCEPT ![idx] = next_cell(cell, live_neighbors)]
        /\ cells' = [cells EXCEPT ![idx] = next_cell(cell, live_neighbors)]
  /\ LoopAdvance
  /\ UNCHANGED <<width, height, ret>>

\* TickCell with next.push(next_cell) instead of next[idx] = next_cell
TickCell_Push ==
  /\ pc = "loop"
  /\ LET idx == get_index(row, col)
         cell == cells[idx]
         live_neighbors == live_neighbor_count(row, col)
         len == VecLen(next)
     IN next' = [i \in 0 .. len |->
                   IF i < len THEN next[i] ELSE next_cell(cell, live_neighbors)]
  /\ LoopAdvance
  /\ UNCHANGED <<width, height, cells, ret>>

\* one iteration of the inner loop body, then the loop increments
TickCell ==
  /\ pc = "loop"
  /\ LET idx == get_index(row, col)
         cell == cells[idx]
         live_neighbors == live_neighbor_count(row, col)
     IN next' = [next EXCEPT ![idx] = next_cell(cell, live_neighbors)]
  /\ LoopAdvance
  /\ UNCHANGED <<width, height, cells, ret>>

\* self.cells = next; and return
TickEnd ==
  /\ pc = "swap"
  /\ cells' = next
  /\ next' = NoBuf
  /\ pc' = "idle"
  /\ ret' = [fn |-> "tick", val |-> 0]
  /\ UNCHANGED <<width, height, row, col>>

\* -------------------------------------------------------------- accessors
Width ==
  /\ pc = "idle"
  /\ ret' = [fn |-> "width", val |-> width]
  /\ UNCHANGED <<width, height, cells, pc, row, col, next>>

\* Height returning self.width
Height_ReturnsWidth ==
  /\ pc = "idle"
  /\ ret' = [fn |-> "height", val |-> width]
  /\ UNCHANGED <<width, height, cells, pc, row, col, next>>

Height ==
  /\ pc = "idle"
  /\ ret' = [fn |-> "height", val |-> height]
  /\ UNCHANGED <<width, height, cells, pc, row, col, next>>

\* the Vec<Cell> reinterpreted as bytes, one per cell
Cells ==
  /\ pc = "idle"
  /\ ret' = [fn |-> "cells", val |-> [i \in DOMAIN cells |-> CellAsU8(cells[i])]]
  /\ UNCHANGED <<width, height, cells, pc, row, col, next>>

\* ---------------------------------------------------------- specification
\* a Universe value: positive dimensions and a buffer of width * height cells
IsUniverse(w, h, buf) ==
  /\ w \in 1 .. MaxCells
  /\ h \in 1 .. MaxCells
  /\ w * h <= MaxCells
  /\ buf \in [0 .. (w * h - 1) -> Cell]

Idle ==
  /\ pc = "idle"
  /\ row = 0
  /\ col = 0
  /\ next = NoBuf
  /\ ret = NoRet

Init ==
  /\ IsUniverse(width, height, cells)
  /\ Idle

Next ==
  \/ TickBegin
  \/ TickCell
  \/ TickEnd
  \/ Width
  \/ Height
  \/ Cells

Spec == Init /\ [][Next]_vars

\* tick() is synchronous and runs to completion: a loop iteration or the swap
\* that can be taken is taken
FairSpec == Spec /\ WF_vars(TickCell) /\ WF_vars(TickEnd)

\* a w x h buffer whose Alive cells are those of the rows rs and columns cs
Pattern(w, h, rs, cs) ==
  [i \in 0 .. (w * h - 1) |->
     IF (i \div w) \in rs /\ (i % w) \in cs THEN "Alive" ELSE "Dead"]

\* the 2x2 block with top left corner (r, c), wrapping at the edges
Block(w, h, r, c) == Pattern(w, h, {r, (r + 1) % h}, {c, (c + 1) % w})

\* the horizontal and the vertical three-cell line centred at (r, c)
HBlinker(w, h, r, c) == Pattern(w, h, {r}, {(c + w - 1) % w, c, (c + 1) % w})

VBlinker(w, h, r, c) == Pattern(w, h, {(r + h - 1) % h, r, (r + 1) % h}, {c})

\* universes of at least 2x2 holding one 2x2 block and nothing else
InitBlock ==
  /\ width \in 2 .. MaxBlockDim
  /\ height \in 2 .. MaxBlockDim
  /\ \E r \in 0 .. (height - 1), c \in 0 .. (width - 1) :
       cells = Block(width, height, r, c)
  /\ Idle

SpecBlock == InitBlock /\ [][Next]_vars

\* universes of at least 5x5 holding one horizontal blinker and nothing else
InitBlinker ==
  /\ width \in 5 .. MaxBlinkerDim
  /\ height \in 5 .. MaxBlinkerDim
  /\ \E r \in 0 .. (height - 1), c \in 0 .. (width - 1) :
       cells = HBlinker(width, height, r, c)
  /\ Idle

SpecBlinker == InitBlinker /\ [][Next]_vars

\* -------------------------------------------------------------------- new
\* let width = 124 * 4; let height = 64 * 4;
NewWidth == 124 * 4

NewHeight == 64 * 4

\* NewCell with `&&` in place of `||`
NewCell_And(i) == IF i % 2 = 0 /\ i % 7 = 0 THEN "Alive" ELSE "Dead"

\* the closure mapped over 0 .. width * height
NewCell(i) == IF i % 2 = 0 \/ i % 7 = 0 THEN "Alive" ELSE "Dead"

\* pub fn new() -> Universe: the two lets and the start of the collect
NewBegin ==
  /\ pc = "start"
  /\ width' = NewWidth
  /\ height' = NewHeight
  /\ cells' = NoBuf
  /\ pc' = "new"
  /\ UNCHANGED <<row, col, next, ret>>

\* one index of 0 .. width * height mapped and collected; when the range is
\* exhausted the Universe is built and returned
NewCollect ==
  /\ pc = "new"
  /\ VecLen(cells) < width * height
  /\ LET i == VecLen(cells)
     IN /\ cells' = [j \in 0 .. i |-> IF j < i THEN cells[j] ELSE NewCell(i)]
        /\ IF i + 1 = width * height
           THEN /\ pc' = "idle"
                /\ ret' = [fn |-> "new", val |-> 0]
           ELSE UNCHANGED <<pc, ret>>
  /\ UNCHANGED <<width, height, row, col, next>>

\* the program before new() has been called: there is no Universe
InitNew ==
  /\ pc = "start"
  /\ width = 0
  /\ height = 0
  /\ cells = NoBuf
  /\ row = 0
  /\ col = 0
  /\ next = NoBuf
  /\ ret = NoRet

\* the program from before new(), next to the universes of Init
InitAny == InitNew \/ Init

\* the collect of new() is explored up to MaxNewCells cells
NextNew ==
  \/ NewBegin
  \/ NewCollect /\ VecLen(cells) < MaxNewCells
  \/ Next

SpecNew == InitAny /\ [][NextNew]_vars

\* ------------------------------------------------------------ properties
\* a step that completes a tick(): the buffer swap and the return
TickCompletes == pc = "swap" /\ pc' = "idle"

Rows == 0 .. (height - 1)

Columns == 0 .. (width - 1)

\* the transition table of the rule: state, live neighbours -> next state
TableNext(state, n) ==
  CASE state = "Alive" /\ n \in {0, 1} -> "Dead"
    [] state = "Alive" /\ n \in {2, 3} -> "Alive"
    [] state = "Alive" /\ n \in 4 .. 255 -> "Dead"
    [] state = "Dead" /\ n = 3 -> "Alive"
    [] state = "Dead" /\ n # 3 -> "Dead"

\* C1: one tick() takes every cell from (state, live_neighbor_count of the
\* cell) to the next state of the transition table, and to nothing else
C1_TransitionTable ==
  [][TickCompletes =>
       \A r \in Rows, c \in Columns :
         cells'[r * width + c] =
           TableNext(cells[r * width + c], live_neighbor_count(r, c))]_vars

\* a tick is about to complete on a grid with a cell that dies, one that
\* survives, one that is born and one that stays dead
C1_Witness ==
  /\ pc = "swap"
  /\ \E r \in Rows, c \in Columns :
       cells[r * width + c] = "Alive" /\ live_neighbor_count(r, c) < 2
  /\ \E r \in Rows, c \in Columns :
       cells[r * width + c] = "Alive" /\ live_neighbor_count(r, c) \in {2, 3}
  /\ \E r \in Rows, c \in Columns :
       cells[r * width + c] = "Dead" /\ live_neighbor_count(r, c) = 3
  /\ \E r \in Rows, c \in Columns :
       cells[r * width + c] = "Dead" /\ live_neighbor_count(r, c) # 3

\* the next buffer while tick() runs: the cells before the loop position hold
\* the rule applied to the grid's buffer, the others are still the clone
NextFromCurrent ==
  /\ pc = "idle" => next = NoBuf
  /\ pc \in {"loop", "swap"} =>
       /\ DOMAIN next = DOMAIN cells
       /\ \A r \in Rows, c \in Columns :
            next[r * width + c] =
              IF pc = "swap" \/ r < row \/ (r = row /\ c < col)
              THEN next_cell(cells[r * width + c], live_neighbor_count(r, c))
              ELSE cells[r * width + c]

\* C2: while tick() evaluates cells the grid's buffer is not modified, every
\* cell of the next buffer is the rule applied to the unmodified buffer, and
\* the grid's buffer changes only by the one swap to the complete next buffer
C2_ReadsOnlyCurrent ==
  /\ []NextFromCurrent
  /\ [][/\ cells' # cells => TickCompletes
        /\ TickCompletes => cells' = next]_vars

\* a tick has evaluated some cells, changed one of them, and not yet all
C2_Witness ==
  /\ pc = "loop"
  /\ row > 0
  /\ next # cells

\* C3: the cell buffer always has exactly width * height cells
C3_Length ==
  /\ DOMAIN cells = 0 .. (width * height - 1)
  /\ VecLen(cells) = width * height

\* a tick() has completed on a grid that is not square
C3_Witness ==
  /\ pc = "idle"
  /\ ret.fn = "tick"
  /\ width # height
  /\ width * height >= 6

\* the 0/1 value of the cell at offset (dr, dc) from (r, c) on the torus
TorusValue(r, c, dr, dc) ==
  CellAsU8(cells[((r + dr + height) % height) * width
                 + ((c + dc + width) % width)])

\* the reference count: the eight offsets of {-1, 0, 1} x {-1, 0, 1} but (0, 0)
RefNeighborCount(r, c) ==
  TorusValue(r, c, -1, -1) + TorusValue(r, c, -1, 0) + TorusValue(r, c, -1, 1)
  + TorusValue(r, c, 0, -1) + TorusValue(r, c, 0, 1)
  + TorusValue(r, c, 1, -1) + TorusValue(r, c, 1, 0) + TorusValue(r, c, 1, 1)

\* C4: on every grid, width or height 1 included, live_neighbor_count sums
\* exactly eight terms and equals the reference count over the eight offsets
C4_ReferenceCount ==
  \A r \in Rows, c \in Columns :
    /\ Len(NeighborVisits(r, c, 1)) = 8
    /\ live_neighbor_count(r, c) = RefNeighborCount(r, c)

\* C5: on a 1x1 grid live_neighbor_count(0, 0) is 8 for an Alive cell and 0
\* for a Dead one
C5_OneByOne ==
  (width = 1 /\ height = 1) =>
    live_neighbor_count(0, 0) = (IF cells[0] = "Alive" THEN 8 ELSE 0)

\* C6: live_neighbor_count of every cell of every buffer is in 0 .. 8
C6_CountRange ==
  \A r \in Rows, c \in Columns : live_neighbor_count(r, c) \in 0 .. 8

\* tick() is at a cell all of whose eight neighbours are Alive
C6_Witness ==
  /\ pc = "loop"
  /\ row > 0
  /\ live_neighbor_count(row, col) = 8


\* the grid holds exactly the 2x2 block with top left corner (r, c)
IsBlockAt(r, c) == cells = Block(width, height, r, c)

\* every cell of the block at (r, c) has exactly 3 live neighbours
BlockCountsThree(r, c) ==
  \A br \in {r, (r + 1) % height}, bc \in {c, (c + 1) % width} :
    live_neighbor_count(br, bc) = 3

\* C7 as stated: on every grid that holds a 2x2 block and nothing else, each
\* block cell has exactly 3 live neighbours and tick() leaves the buffer as is
C7_BlockEveryGrid ==
  [][TickCompletes =>
       \A r \in Rows, c \in Columns :
         IsBlockAt(r, c) => BlockCountsThree(r, c) /\ cells' = cells]_vars

\* C7 amended: the same on grids of width >= 3 and height >= 3
C7_BlockStillLife ==
  [][TickCompletes /\ width >= 3 /\ height >= 3 =>
       \A r \in Rows, c \in Columns :
         IsBlockAt(r, c) => BlockCountsThree(r, c) /\ cells' = cells]_vars

\* a tick() is about to complete on a block that wraps around both edges of a
\* grid that is not square
C7_Witness ==
  /\ pc = "swap"
  /\ width >= 3
  /\ height >= 3
  /\ width # height
  /\ IsBlockAt(height - 1, width - 1)
  /\ next = cells

\* C8: on grids of at least 5x5 one tick() takes the horizontal blinker at
\* (r, c) to the vertical one at (r, c), and the next tick() takes it back
C8_BlinkerPeriodTwo ==
  [][TickCompletes =>
       \A r \in Rows, c \in Columns :
         /\ cells = HBlinker(width, height, r, c)
              => cells' = VBlinker(width, height, r, c)
         /\ cells = VBlinker(width, height, r, c)
              => cells' = HBlinker(width, height, r, c)]_vars

\* the second tick() of a blinker in the corner is about to complete
C8_Witness ==
  /\ pc = "swap"
  /\ width # height
  /\ cells = VBlinker(width, height, 0, 0)
  /\ next = HBlinker(width, height, 0, 0)

AllDead(buf) == \A i \in DOMAIN buf : buf[i] = "Dead"

\* C9: tick() takes an all-Dead grid to an all-Dead grid
C9_NoSpontaneousGeneration ==
  [][TickCompletes /\ AllDead(cells) => AllDead(cells')]_vars

\* a tick() has completed on an all-Dead grid of at least 3x3
C9_Witness ==
  /\ pc = "idle"
  /\ ret.fn = "tick"
  /\ width >= 3
  /\ height >= 3
  /\ AllDead(cells)

\* the cell (r, c) is the only Alive cell of the grid
OnlyAlive(r, c) ==
  \A i \in DOMAIN cells : cells[i] = "Alive" <=> i = r * width + c

\* C10: a cell that is Alive with live_neighbor_count 0 is Dead after one
\* tick(), and a grid whose single Alive cell has no Alive neighbour is then
\* all Dead
C10_Underpopulation ==
  [][TickCompletes =>
       \A r \in Rows, c \in Columns :
         (cells[r * width + c] = "Alive" /\ live_neighbor_count(r, c) = 0) =>
           /\ cells'[r * width + c] = "Dead"
           /\ OnlyAlive(r, c) => AllDead(cells')]_vars

\* a tick() is about to complete on a grid whose single Alive cell has no
\* Alive neighbour
C10_Witness ==
  /\ pc = "swap"
  /\ \E r \in Rows, c \in Columns :
       OnlyAlive(r, c) /\ live_neighbor_count(r, c) = 0

\* C16: the grid of new() has width 496 and height 256, its buffer is
\* collected over the indices 0 .. width * height, and its cell i is Alive
\* iff i % 2 == 0 or i % 7 == 0, else Dead
C16_NewPattern ==
  [](pc = "new" =>
       /\ width = 496
       /\ height = 256
       /\ \A i \in DOMAIN cells :
            /\ cells[i] = "Alive" <=> (i % 2 = 0 \/ i % 7 = 0)
            /\ cells[i] = "Dead" <=> ~(i % 2 = 0 \/ i % 7 = 0)
       /\ cells = NoBuf =>
            \A i \in 0 .. (width * height - 1) :
              /\ NewCell(i) = "Alive" <=> (i % 2 = 0 \/ i % 7 = 0)
              /\ NewCell(i) = "Dead" <=> ~(i % 2 = 0 \/ i % 7 = 0))

\* new() has collected cells of both values, 14 = 2 * 7 among them
C16_Witness ==
  /\ pc = "new"
  /\ VecLen(cells) > 14
  /\ cells[7] = "Alive"
  /\ cells[9] = "Dead"
  /\ cells[14] = "Alive"

\* x is a value of u32: 0 <= x < 2^32 = 65536 * 65536
FitsU32(x) == x >= 0 /\ x \div 65536 < 65536

\* a Universe exists, or new() has fixed its dimensions
HasDimensions == pc \in {"idle", "loop", "swap"} \/ (pc = "new" /\ cells = NoBuf)

\* every computation of tick() and live_neighbor_count for the cell (r, c):
\* the index of the cell, and for each delta pair that is not skipped the two
\* sums, the two remainders and the index of the neighbour
CellArithmeticSafe(r, c) ==
  /\ FitsU32(r * width)
  /\ FitsU32(r * width + c)
  /\ get_index(r, c) \in 0 .. (width * height - 1)
  /\ \A k \in 1 .. 3, j \in 1 .. 3 :
       LET delta_row == DeltaRows[k]
           delta_col == DeltaCols[j]
       IN (delta_row = 0 /\ delta_col = 0) \/
            /\ FitsU32(delta_row)
            /\ FitsU32(delta_col)
            /\ FitsU32(r + delta_row)
            /\ FitsU32(c + delta_col)
            /\ FitsU32(((r + delta_row) % height) * width)
            /\ get_index((r + delta_row) % height, (c + delta_col) % width)
                 \in 0 .. (width * height - 1)
  /\ LET visits == NeighborVisits(r, c, 1)
     IN /\ \A n \in 1 .. Len(visits) : visits[n] \in 0 .. (width * height - 1)
        /\ Len(visits) <= 255

\* C12: on a valid grid no computation of tick() or of the accessors can
\* fail: the divisors width and height are not 0, height - 1 and width - 1 do
\* not underflow, every index is inside the buffers, and no u32 value and no
\* u8 count overflows; for the grids of Init after any number of ticks, and
\* for the dimensions of new()
C12_Infallible ==
  [](HasDimensions =>
       /\ width > 0
       /\ height > 0
       /\ FitsU32(width * height)
       /\ pc \in {"idle", "loop", "swap"} => DOMAIN cells = 0 .. (width * height - 1)
       /\ pc \in {"loop", "swap"} => DOMAIN next = 0 .. (width * height - 1)
       /\ pc = "loop" => row \in Rows /\ col \in Columns
       /\ \A i \in DOMAIN cells : CellAsU8(cells[i]) \in {0, 1}
       /\ \A r \in Rows, c \in Columns : CellArithmeticSafe(r, c))

\* tick() is at the last cell of a grid that is not square, after an earlier
\* call has returned
C12_Witness ==
  /\ pc = "loop"
  /\ width >= 2
  /\ height >= 2
  /\ width # height
  /\ row = height - 1
  /\ col = width - 1

\* every tick() that has started returns
TickTerminates == (pc \in {"loop", "swap"}) ~> (pc = "idle")

\* tick() starts at cell 0, goes from each cell to the cell with the next
\* index and leaves the loops after cell width * height - 1
EachCellOnce ==
  [][/\ (pc = "idle" /\ pc' = "loop") => get_index(row', col') = 0
     /\ (pc = "loop" /\ pc' = "loop") =>
          get_index(row', col') = get_index(row, col) + 1
     /\ (pc = "loop" /\ pc' = "swap") =>
          get_index(row, col) = width * height - 1]_vars

\* the cell tick() is at has eight neighbour offsets evaluated
EightOffsets == pc = "loop" => Len(NeighborVisits(row, col, 1)) = 8

\* C13: every tick() terminates, after evaluating each of the width * height
\* cells exactly once and eight neighbour offsets for each cell
C13_TickTerminates ==
  /\ TickTerminates
  /\ EachCellOnce
  /\ []EightOffsets

\* a step that is a call of width(), height() or cells()
AccessorCall == pc = "idle" /\ pc' = "idle"

\* C14: tick() and the accessors never change width and height, the
\* accessors change no field and no buffer, and width() and height() return
\* the fields, hence the values the Universe was built with
C14_DimensionsFixed ==
  /\ [](/\ ret.fn = "width" => ret.val = width
        /\ ret.fn = "height" => ret.val = height)
  /\ [][/\ width' = width
        /\ height' = height
        /\ AccessorCall => cells' = cells /\ next' = next]_vars

\* height() has returned on a grid that is not square
C14_Witness ==
  /\ pc = "idle"
  /\ ret.fn = "height"
  /\ width # height

\* C15: what cells() returns is the current generation as width * height
\* bytes in row-major order, 1 for an Alive cell and 0 for a Dead one
C15_CellsView ==
  ret.fn = "cells" =>
    /\ DOMAIN ret.val = 0 .. (width * height - 1)
    /\ \A i \in DOMAIN ret.val : ret.val[i] \in {0, 1}
    /\ \A r \in Rows, c \in Columns :
         /\ cells[r * width + c] = "Alive" => ret.val[r * width + c] = 1
         /\ cells[r * width + c] = "Dead" => ret.val[r * width + c] = 0

\* cells() has returned bytes of both values on a grid that is not square
C15_Witness ==
  /\ ret.fn = "cells"
  /\ width >= 2
  /\ height >= 2
  /\ width # height
  /\ \E i, j \in DOMAIN ret.val : ret.val[i] = 1 /\ ret.val[j] = 0

\* the buffer moved by a rows down and b columns right on the torus
Shift(buf, a, b) ==
  [i \in DOMAIN buf |->
     buf[(((i \div width) + height - a) % height) * width
         + (((i % width) + width - b) % width)]]

\* C17: tick() commutes with every cyclic translation: the tick of the
\* shifted buffer is the shifted buffer of the tick
C17_TranslationCommutes ==
  [](pc = "swap" =>
       /\ next = NextBuffer(cells)
       /\ \A a \in Rows, b \in Columns :
            NextBuffer(Shift(cells, a, b)) = Shift(next, a, b))

\* a tick() that changes the buffer is about to complete on a grid of at
\* least 3x3 that a shift by (1, 1) does not map to itself
C17_Witness ==
  /\ pc = "swap"
  /\ width >= 3
  /\ height >= 3
  /\ next # cells
  /\ ~AllDead(next)
  /\ Shift(cells, 1, 1) # cells
====
